---- MODULE Spec2Model ----
(***************************************************************************)
(* A4 Markdown Writer (src/app.py): a Streamlit script.  Every user        *)
(* interaction re-runs the whole script top to bottom on the session       *)
(* state; one action of this model is one such rerun.  Text is a sequence  *)
(* of characters, each character a string: itself, or its name for the     *)
(* backtick (BACKTICK), the line feed (NEWLINE) and the two non-ASCII      *)
(* characters of the script's literals (EMDASH, BULLET).                   *)
(***************************************************************************)
EXTENDS Integers, Sequences, FiniteSets, TLC

VARIABLES session_state, selected_template, clicked, preview, download

vars == <<session_state, selected_template, clicked, preview, download>>

(***************************************************************************)
(* Bounds of the model.                                                    *)
(***************************************************************************)
\* longest document text the Load (append) button is followed to
MaxLen == 4
\* longest text typed into the text area in the session model
MaxEditLen == 1
\* number of fragments a document text is built from in the escaping model
MaxFrags == 3

(***************************************************************************)
(* Characters.                                                             *)
(***************************************************************************)
DigitChars == <<"0", "1", "2", "3", "4", "5", "6", "7", "8", "9">>

\* the printable ASCII characters, code points 32..126 in order
Printable ==
  <<" ", "!", "\"", "#", "$", "%", "&", "'", "(", ")", "*", "+", ",", "-", ".", "/",
    "0", "1", "2", "3", "4", "5", "6", "7", "8", "9", ":", ";", "<", "=", ">", "?",
    "@", "A", "B", "C", "D", "E", "F", "G", "H", "I", "J", "K", "L", "M", "N", "O",
    "P", "Q", "R", "S", "T", "U", "V", "W", "X", "Y", "Z", "[", "\\", "]", "^", "_",
    "BACKTICK", "a", "b", "c", "d", "e", "f", "g", "h", "i", "j", "k", "l", "m", "n", "o",
    "p", "q", "r", "s", "t", "u", "v", "w", "x", "y", "z", "{", "|", "}", "~">>

\* every character of the model
Chars == {Printable[i] : i \in 1..95} \cup {"EMDASH", "BULLET", "NEWLINE"}

\* Unicode code point of each character
CodePoint ==
  [c \in Chars |->
     CASE c = "EMDASH" -> 8212
       [] c = "BULLET" -> 8226
       [] c = "NEWLINE" -> 10
       [] OTHER -> 31 + (CHOOSE i \in 1..95 : Printable[i] = c)]

\* str(n) of Python for n >= 0, as the f-string holes format integers
RECURSIVE Str(_)
Str(n) ==
  IF n < 10 THEN <<DigitChars[n + 1]>>
  ELSE Str(n \div 10) \o <<DigitChars[(n % 10) + 1]>>

\* str.replace(old, new) for a one-character old
RECURSIVE Replace(_, _, _)
Replace(s, old, new) ==
  IF s = <<>> THEN <<>>
  ELSE (IF Head(s) = old THEN new ELSE <<Head(s)>>) \o Replace(Tail(s), old, new)

(***************************************************************************)
(* Presets and templates.                                                  *)
(***************************************************************************)
PresetNames == {"2-up", "3-up", "4-up"}

\* mutant: the 4-up preset's gap is below the gap slider's minimum
PRESETS_GapBelowMin ==
  [p \in PresetNames |->
     CASE p = "2-up" -> [columns |-> 2, margin_mm |-> 12, gap_mm |-> 10,
                         font_px |-> 11, show_guides |-> TRUE]
       [] p = "3-up" -> [columns |-> 3, margin_mm |-> 12, gap_mm |-> 8,
                         font_px |-> 10, show_guides |-> TRUE]
       [] p = "4-up" -> [columns |-> 4, margin_mm |-> 10, gap_mm |-> 3,
                         font_px |-> 10, show_guides |-> TRUE]]

PRESETS ==
  [p \in PresetNames |->
     CASE p = "2-up" -> [columns |-> 2, margin_mm |-> 12, gap_mm |-> 10,
                         font_px |-> 11, show_guides |-> TRUE]
       [] p = "3-up" -> [columns |-> 3, margin_mm |-> 12, gap_mm |-> 8,
                         font_px |-> 10, show_guides |-> TRUE]
       [] p = "4-up" -> [columns |-> 4, margin_mm |-> 10, gap_mm |-> 6,
                         font_px |-> 10, show_guides |-> TRUE]]

TemplateNames == {"Blank", "Lecture Notes", "Code Snippets", "Formula Sheet"}

\* Each template's text is cut down to a few of its characters, in the order
\* they first occur in it: the ones the escaping and the encoding tell apart.
TEMPLATES ==
  [t \in TemplateNames |->
     CASE t = "Blank" -> <<>>
       [] t = "Lecture Notes" -> <<"#", "EMDASH", "$">>
       [] t = "Code Snippets" -> <<"#", "BACKTICK", "NEWLINE">>
       [] t = "Formula Sheet" -> <<"#", "$", "\\">>]

\* the text area's initial content, cut down the same way
default_md == <<"#", "$", "\\", "BACKTICK">>

Orientations == {"portrait", "landscape"}

\* the characters of the orientation selectbox's options
OrientationText(orientation) ==
  IF orientation = "portrait"
  THEN <<"p", "o", "r", "t", "r", "a", "i", "t">>
  ELSE <<"l", "a", "n", "d", "s", "c", "a", "p", "e">>

(***************************************************************************)
(* Document assembler.                                                     *)
(***************************************************************************)
A4_W == 210
A4_H == 297

page_w(orientation) == IF orientation = "portrait" THEN A4_W ELSE A4_H

\* mutant: the height does not follow the orientation
page_h_Fixed(orientation) == A4_H

page_h(orientation) == IF orientation = "portrait" THEN A4_H ELSE A4_W

\* the value of the column-rule declaration
rule_css(show_guides) ==
  IF show_guides
  THEN <<"1", "p", "x", " ", "s", "o", "l", "i", "d", " ", "#", "d", "d", "d">>
  ELSE <<"n", "o", "n", "e">>

\* mutant: the backslash pass runs last, over the backslashes the other two
\* passes wrote
md_js_BackslashLast(md) ==
  Replace(Replace(Replace(md, "BACKTICK", <<"\\", "BACKTICK">>),
                  "$", <<"\\", "$">>),
          "\\", <<"\\", "\\", "\\", "\\">>)

\* Escape for JS template string: three replace passes, in this order.  The
\* raw literal of the first pass is four backslashes.
md_js(md) ==
  Replace(Replace(Replace(md, "\\", <<"\\", "\\", "\\", "\\">>),
                  "BACKTICK", <<"\\", "BACKTICK">>),
          "$", <<"\\", "$">>)

\* mutant: the margin hole is filled with the gap
html_doc_GapForMargin(ss) ==
  [page_w_mm    |-> Str(page_w(ss.orientation)) \o <<"m", "m">>,
   page_h_mm    |-> Str(page_h(ss.orientation)) \o <<"m", "m">>,
   margin_mm    |-> Str(ss.gap_mm) \o <<"m", "m">>,
   gap_mm       |-> Str(ss.gap_mm) \o <<"m", "m">>,
   font_px      |-> Str(ss.font_px) \o <<"p", "x">>,
   cols         |-> Str(ss.columns),
   page_size    |-> OrientationText(ss.orientation),
   column_rule  |-> rule_css(ss.show_guides),
   toolbar      |-> OrientationText(ss.orientation) \o <<" ", "BULLET", " ">>
                      \o Str(ss.columns),
   raw          |-> md_js(ss.md)]

\* The f-string: one field per hole, each with the unit the template writes
\* right after it.  The template's other text is the same in every document.
html_doc(ss) ==
  [page_w_mm    |-> Str(page_w(ss.orientation)) \o <<"m", "m">>,
   page_h_mm    |-> Str(page_h(ss.orientation)) \o <<"m", "m">>,
   margin_mm    |-> Str(ss.margin_mm) \o <<"m", "m">>,
   gap_mm       |-> Str(ss.gap_mm) \o <<"m", "m">>,
   font_px      |-> Str(ss.font_px) \o <<"p", "x">>,
   cols         |-> Str(ss.columns),
   page_size    |-> OrientationText(ss.orientation),
   column_rule  |-> rule_css(ss.show_guides),
   toolbar      |-> OrientationText(ss.orientation) \o <<" ", "BULLET", " ">>
                      \o Str(ss.columns),
   raw          |-> md_js(ss.md)]

(***************************************************************************)
(* Delivery: the download link's data URI.                                 *)
(***************************************************************************)
\* the closing tag the template writes after the embedded script
CloseTag == <<"<", "/", "s", "c", "r", "i", "p", "t", ">">>

\* The script element's content from the opening backtick of line 223 on,
\* and the closing tag of line 229; the statements between them are constant.
ScriptText(doc) == <<"BACKTICK">> \o doc.raw \o <<"BACKTICK", ";">> \o CloseTag

\* The document's characters: every hole's value in the template's order,
\* each ended as the template ends it, then the embedded script.
HtmlText(doc) ==
  doc.page_w_mm \o <<";">> \o doc.page_h_mm \o <<";">> \o doc.margin_mm \o <<";">>
    \o doc.gap_mm \o <<";">> \o doc.font_px \o <<";">> \o doc.cols \o <<";">>
    \o doc.page_size \o <<";">> \o doc.column_rule \o <<";">>
    \o doc.toolbar \o <<" ">> \o ScriptText(doc)

\* one character's UTF-8 bytes
Utf8(cp) ==
  IF cp < 128 THEN <<cp>>
  ELSE IF cp < 2048 THEN <<192 + (cp \div 64), 128 + (cp % 64)>>
  ELSE <<224 + (cp \div 4096), 128 + ((cp \div 64) % 64), 128 + (cp % 64)>>

\* str.encode("utf-8")
RECURSIVE encode(_)
encode(s) ==
  IF s = <<>> THEN <<>> ELSE Utf8(CodePoint[Head(s)]) \o encode(Tail(s))

\* the base64 alphabet, values 0..63 in order
B64Chars ==
  <<"A", "B", "C", "D", "E", "F", "G", "H", "I", "J", "K", "L", "M", "N", "O", "P",
    "Q", "R", "S", "T", "U", "V", "W", "X", "Y", "Z", "a", "b", "c", "d", "e", "f",
    "g", "h", "i", "j", "k", "l", "m", "n", "o", "p", "q", "r", "s", "t", "u", "v",
    "w", "x", "y", "z", "0", "1", "2", "3", "4", "5", "6", "7", "8", "9", "+", "/">>

\* base64.b64encode(b).decode(): each group of three bytes gives four
\* characters; a last group of one or two bytes is padded with "="
b64encode(b) ==
  LET n == Len(b)
      byte(i) == IF i <= n THEN b[i] ELSE 0
  IN  [k \in 1..(4 * ((n + 2) \div 3)) |->
         LET g  == 3 * ((k - 1) \div 4)
             j  == (k - 1) % 4
             b1 == byte(g + 1)
             b2 == byte(g + 2)
             b3 == byte(g + 3)
         IN  CASE j = 0 -> B64Chars[(b1 \div 4) + 1]
               [] j = 1 -> B64Chars[((b1 % 4) * 16) + (b2 \div 16) + 1]
               [] j = 2 -> IF g + 2 > n THEN "="
                           ELSE B64Chars[((b2 % 16) * 4) + (b3 \div 64) + 1]
               [] j = 3 -> IF g + 3 > n THEN "=" ELSE B64Chars[(b3 % 64) + 1]]

DataUriPrefix ==
  <<"d", "a", "t", "a", ":", "t", "e", "x", "t", "/", "h", "t", "m", "l", ";",
    "b", "a", "s", "e", "6", "4", ",">>

\* href of the download link
href(doc) == DataUriPrefix \o b64encode(encode(HtmlText(doc)))

(***************************************************************************)
(* One run of the script.                                                  *)
(***************************************************************************)
ButtonNames ==
  PresetNames \cup {"Load (replace)", "Load (append)", "Download as HTML"}

\* dict.update: the keys of d overwritten, the others kept
Update(ss, d) == [k \in DOMAIN ss |-> IF k \in DOMAIN d THEN d[k] ELSE ss[k]]

\* mutant: the 3-up button applies the 2-up preset
ApplyPresets_CopyPaste(ss, click) ==
  IF click \in PresetNames
  THEN Update(ss, PRESETS[IF click = "3-up" THEN "2-up" ELSE click])
  ELSE ss

\* the preset buttons: the one that was clicked updates the session state
ApplyPresets(ss, click) ==
  IF click \in PresetNames THEN Update(ss, PRESETS[click]) ELSE ss

\* mutant: the two buttons' branches are exchanged
LoadTemplate_Exchanged(md, text, load_replace, load_append) ==
  IF load_replace THEN md \o <<>> \o text
  ELSE IF load_append THEN text
  ELSE md

\* mutant: a line feed is put between the text and the template
LoadTemplate_LineFeed(md, text, load_replace, load_append) ==
  IF load_replace THEN text
  ELSE IF load_append THEN md \o <<"NEWLINE">> \o text
  ELSE md

\* the two load buttons: the new document text
LoadTemplate(md, text, load_replace, load_append) ==
  IF load_replace THEN text
  ELSE IF load_append THEN md \o <<>> \o text
  ELSE md

\* mutant: the document is assembled before the buttons take effect
Script_DocumentFirst(ss, sel, click) ==
  LET doc == html_doc(ss)
      ss1 == ApplyPresets(ss, click)
      ss2 == [ss1 EXCEPT !.md = LoadTemplate(ss1.md, TEMPLATES[sel],
                                             click = "Load (replace)",
                                             click = "Load (append)")]
  IN  [session_state |-> ss2,
       preview       |-> <<doc>>,
       download      |-> IF click = "Download as HTML" THEN <<href(doc)>> ELSE <<>>]

\* The script from top to bottom on session state ss, where the widgets'
\* new values already are, with the template choice sel and the button click
\* that caused the run ("none" when a widget other than a button did).
Script(ss, sel, click) ==
  LET ss1 == ApplyPresets(ss, click)
      ss2 == [ss1 EXCEPT !.md = LoadTemplate(ss1.md, TEMPLATES[sel],
                                             click = "Load (replace)",
                                             click = "Load (append)")]
      doc == html_doc(ss2)
  IN  [session_state |-> ss2,
       preview       |-> <<doc>>,
       download      |-> IF click = "Download as HTML" THEN <<href(doc)>> ELSE <<>>]

\* a rerun: the script's effects become the new state
Rerun(ss, sel, click) ==
  LET out == Script(ss, sel, click)
  IN  /\ session_state' = out.session_state
      /\ selected_template' = sel
      /\ clicked' = click
      /\ preview' = out.preview
      /\ download' = out.download

\* the widgets' defaults on the first run of a session
Defaults ==
  [orientation |-> "portrait", columns |-> 2, margin_mm |-> 12, gap_mm |-> 8,
   font_px |-> 11, show_guides |-> TRUE, md |-> default_md]

\* the first run of a session
Init ==
  LET out == Script(Defaults, "Lecture Notes", "none")
  IN  /\ session_state = out.session_state
      /\ selected_template = "Lecture Notes"
      /\ clicked = "none"
      /\ preview = out.preview
      /\ download = out.download

(***************************************************************************)
(* User interactions, each followed by a rerun.                            *)
(***************************************************************************)
\* the positions a slider is moved to: its two ends
SliderInputs(lo, hi) == {lo, hi}

\* the characters typed into the text area
EditChars == {"a"}

RECURSIVE SeqsUpTo(_, _)
SeqsUpTo(S, n) ==
  IF n = 0 THEN {<<>>}
  ELSE LET shorter == SeqsUpTo(S, n - 1)
       IN  shorter \cup {Append(t, c) : t \in shorter, c \in S}

EditTexts == SeqsUpTo(EditChars, MaxEditLen)

ClickPreset(p) ==
  Rerun(session_state, selected_template, p)

MoveColumns(v) ==
  /\ v # session_state.columns
  /\ Rerun([session_state EXCEPT !.columns = v], selected_template, "none")

MoveMargin(v) ==
  /\ v # session_state.margin_mm
  /\ Rerun([session_state EXCEPT !.margin_mm = v], selected_template, "none")

MoveGap(v) ==
  /\ v # session_state.gap_mm
  /\ Rerun([session_state EXCEPT !.gap_mm = v], selected_template, "none")

MoveFont(v) ==
  /\ v # session_state.font_px
  /\ Rerun([session_state EXCEPT !.font_px = v], selected_template, "none")

SelectOrientation(o) ==
  /\ o # session_state.orientation
  /\ Rerun([session_state EXCEPT !.orientation = o], selected_template, "none")

ToggleGuides ==
  Rerun([session_state EXCEPT !.show_guides = ~session_state.show_guides],
        selected_template, "none")

SelectTemplate(t) ==
  /\ t # selected_template
  /\ Rerun(session_state, t, "none")

ClickLoadReplace ==
  Rerun(session_state, selected_template, "Load (replace)")

ClickLoadAppend ==
  /\ Len(session_state.md) + Len(TEMPLATES[selected_template]) <= MaxLen
  /\ Rerun(session_state, selected_template, "Load (append)")

EditMarkdown(t) ==
  /\ t # session_state.md
  /\ Rerun([session_state EXCEPT !.md = t], selected_template, "none")

ClickDownload ==
  Rerun(session_state, selected_template, "Download as HTML")

Next ==
  \/ \E p \in PresetNames : ClickPreset(p)
  \/ \E v \in 1..4 : MoveColumns(v)
  \/ \E v \in SliderInputs(5, 25) : MoveMargin(v)
  \/ \E v \in SliderInputs(4, 20) : MoveGap(v)
  \/ \E v \in SliderInputs(9, 16) : MoveFont(v)
  \/ \E o \in Orientations : SelectOrientation(o)
  \/ ToggleGuides
  \/ \E t \in TemplateNames : SelectTemplate(t)
  \/ ClickLoadReplace
  \/ ClickLoadAppend
  \/ \E t \in EditTexts : EditMarkdown(t)
  \/ ClickDownload

Spec == Init /\ [][Next]_vars

(***************************************************************************)
(* The assembler alone: one run of the script on every valid layout, and   *)
(* on every document text built from a few fragments.                      *)
(***************************************************************************)
\* what a document text is built from
Fragments == {<<"\\">>, <<"BACKTICK">>, <<"$">>, <<"a">>, CloseTag}

RECURSIVE Concats(_)
Concats(n) ==
  IF n = 0 THEN {<<>>}
  ELSE LET shorter == Concats(n - 1)
       IN  shorter \cup {t \o f : t \in shorter, f \in Fragments}

Texts == Concats(MaxFrags)

Layouts ==
  [orientation : Orientations, columns : 1..4, margin_mm : 5..25,
   gap_mm : 4..20, font_px : 9..16, show_guides : BOOLEAN, md : {default_md}]

\* the widgets hold a layout and a text; the script has not run on them yet
InitAssemble ==
  /\ session_state \in Layouts \cup {[Defaults EXCEPT !.md = t] : t \in Texts}
  /\ selected_template = "Lecture Notes"
  /\ clicked = "none"
  /\ preview = <<>>
  /\ download = <<>>

Assemble ==
  /\ preview = <<>>
  /\ Rerun(session_state, selected_template, "none")

NextAssemble == Assemble

SpecAssemble == InitAssemble /\ [][NextAssemble]_vars

(***************************************************************************)
(* Readers of the document: what a browser makes of it.                    *)
(***************************************************************************)
\* the number a style value holds before its unit, -1 if it is no such value
ReadNumber(s, unit) ==
  LET n == Len(s) - Len(unit)
      digit(c) == CHOOSE d \in 0..9 : DigitChars[d + 1] = c
      val[i \in 0..(IF n > 0 THEN n ELSE 0)] ==
        IF i = 0 THEN 0 ELSE (10 * val[i - 1]) + digit(s[i])
  IN  IF /\ n >= 1
         /\ SubSeq(s, n + 1, Len(s)) = unit
         /\ \A i \in 1..n : \E d \in 0..9 : DigitChars[d + 1] = s[i]
         /\ (n > 1 => s[1] # "0")
      THEN val[n]
      ELSE -1

\* how many backslashes stand right before position i
RECURSIVE BackslashesBefore(_, _)
BackslashesBefore(s, i) ==
  IF i = 1 \/ s[i - 1] # "\\" THEN 0 ELSE 1 + BackslashesBefore(s, i - 1)

\* The value of a template literal with source s: a backslash and the
\* character after it give that character.
RECURSIVE Cook(_)
Cook(s) ==
  IF s = <<>> THEN <<>>
  ELSE IF Head(s) = "\\" /\ Len(s) >= 2
       THEN <<s[2]>> \o Cook(SubSeq(s, 3, Len(s)))
       ELSE <<Head(s)>> \o Cook(Tail(s))

\* Where an HTML parser ends a script element whose content is s: at the
\* first "</script" followed by ">", "/" or white space; 0 if nowhere.
FirstCloseTag(s) ==
  LET ends == {i \in 1..(Len(s) - 8) :
                 /\ SubSeq(s, i, i + 7) = SubSeq(CloseTag, 1, 8)
                 /\ s[i + 8] \in {">", "/", " ", "NEWLINE"}}
  IN  IF ends = {} THEN 0 ELSE CHOOSE i \in ends : \A j \in ends : i <= j

\* value of each base64 character
B64Value == [c \in {B64Chars[i] : i \in 1..64} |->
               (CHOOSE i \in 1..64 : B64Chars[i] = c) - 1]

\* the bytes a base64 text stands for
b64decode(t) ==
  LET n   == Len(t)
      pad == IF n = 0 THEN 0
             ELSE IF t[n - 1] = "=" THEN 2 ELSE IF t[n] = "=" THEN 1 ELSE 0
      v(i) == IF t[i] = "=" THEN 0 ELSE B64Value[t[i]]
  IN  [k \in 1..((3 * (n \div 4)) - pad) |->
         LET g == 4 * ((k - 1) \div 3)
             j == (k - 1) % 3
         IN  CASE j = 0 -> (v(g + 1) * 4) + (v(g + 2) \div 16)
               [] j = 1 -> ((v(g + 2) % 16) * 16) + (v(g + 3) \div 4)
               [] j = 2 -> ((v(g + 3) % 4) * 64) + v(g + 4)]

\* the first position from i on that does not hold a continuation byte
NextLead(b, i) ==
  LET cont(k) == k <= Len(b) /\ b[k] >= 128 /\ b[k] < 192
  IN  IF cont(i) THEN (IF cont(i + 1) THEN i + 2 ELSE i + 1) ELSE i

\* The code points the UTF-8 bytes b[lo..hi] stand for, lo the first byte of
\* a character and hi the last byte of one: a single character is decoded,
\* a longer range is split between two characters near its middle.
RECURSIVE utf8decode(_, _, _)
utf8decode(b, lo, hi) ==
  IF lo > hi THEN <<>>
  ELSE LET m == NextLead(b, (lo + hi + 1) \div 2)
       IN  IF lo = hi THEN <<b[lo]>>
           ELSE IF m > hi /\ hi = lo + 1
                THEN <<((b[lo] - 192) * 64) + (b[hi] - 128)>>
           ELSE IF m > hi /\ hi = lo + 2 /\ NextLead(b, lo + 1) > hi
                THEN <<((b[lo] - 224) * 4096) + ((b[lo + 1] - 128) * 64)
                         + (b[hi] - 128)>>
           ELSE LET k == IF m > hi THEN NextLead(b, lo + 1) ELSE m
                IN  utf8decode(b, lo, k - 1) \o utf8decode(b, k, hi)

\* the document a data URI holds, as code points; <<>> if it is no data URI
Downloaded(uri) ==
  IF /\ Len(uri) >= Len(DataUriPrefix)
     /\ SubSeq(uri, 1, Len(DataUriPrefix)) = DataUriPrefix
  THEN LET b == b64decode(SubSeq(uri, Len(DataUriPrefix) + 1, Len(uri)))
       IN  utf8decode(b, 1, Len(b))
  ELSE <<>>

CodePoints(s) == [i \in 1..Len(s) |-> CodePoint[s[i]]]

(***************************************************************************)
(* Properties.                                                             *)
(***************************************************************************)
\* C1: in every state of a session the layout is in range: columns in 1..4,
\* margin in 5..25, gap in 4..20, font size in 9..16.
C1_LayoutInRange ==
  /\ session_state.columns \in 1..4
  /\ session_state.margin_mm \in 5..25
  /\ session_state.gap_mm \in 4..20
  /\ session_state.font_px \in 9..16

\* a preset was applied after sliders, orientation and text were changed
C1_Witness ==
  /\ clicked = "4-up"
  /\ session_state.orientation = "landscape"
  /\ session_state.md = <<"a", "#", "EMDASH", "$">>

\* the layout a preset button is documented to give, and the style values
\* a document with that layout holds
C2_Layout(p) ==
  CASE p = "2-up" -> [columns |-> 2, margin_mm |-> 12, gap_mm |-> 10, font_px |-> 11,
                      cols |-> <<"2">>, margin |-> <<"1", "2", "m", "m">>,
                      gap |-> <<"1", "0", "m", "m">>, font |-> <<"1", "1", "p", "x">>]
    [] p = "3-up" -> [columns |-> 3, margin_mm |-> 12, gap_mm |-> 8, font_px |-> 10,
                      cols |-> <<"3">>, margin |-> <<"1", "2", "m", "m">>,
                      gap |-> <<"8", "m", "m">>, font |-> <<"1", "0", "p", "x">>]
    [] p = "4-up" -> [columns |-> 4, margin_mm |-> 10, gap_mm |-> 6, font_px |-> 10,
                      cols |-> <<"4">>, margin |-> <<"1", "0", "m", "m">>,
                      gap |-> <<"6", "m", "m">>, font |-> <<"1", "0", "p", "x">>]

\* C2: at the end of the rerun a preset button caused, the layout is the
\* preset's (2-up: 2, 12, 10, 11; 3-up: 3, 12, 8, 10; 4-up: 4, 10, 6, 10;
\* guides on) and the document of that rerun holds those values.
C2_PresetApplied ==
  \A p \in PresetNames :
    clicked = p =>
      /\ session_state.columns = C2_Layout(p).columns
      /\ session_state.margin_mm = C2_Layout(p).margin_mm
      /\ session_state.gap_mm = C2_Layout(p).gap_mm
      /\ session_state.font_px = C2_Layout(p).font_px
      /\ session_state.show_guides = TRUE
      /\ Len(preview) = 1
      /\ preview[1].cols = C2_Layout(p).cols
      /\ preview[1].margin_mm = C2_Layout(p).margin
      /\ preview[1].gap_mm = C2_Layout(p).gap
      /\ preview[1].font_px = C2_Layout(p).font
      /\ preview[1].column_rule # <<"n", "o", "n", "e">>

\* the 3-up preset was applied in landscape
C2_Witness ==
  /\ clicked = "3-up"
  /\ session_state.orientation = "landscape"
  /\ preview[1].gap_mm = <<"8", "m", "m">>

\* C3: the numbers read back from an assembled document's style values
\* (--cols, --margin-mm, --gap-mm, --font-px) are the layout's columns,
\* margin, gap and font size.
C3_StyleRoundTrip ==
  preview # <<>> =>
    /\ ReadNumber(preview[1].cols, <<>>) = session_state.columns
    /\ ReadNumber(preview[1].margin_mm, <<"m", "m">>) = session_state.margin_mm
    /\ ReadNumber(preview[1].gap_mm, <<"m", "m">>) = session_state.gap_mm
    /\ ReadNumber(preview[1].font_px, <<"p", "x">>) = session_state.font_px

\* a document was assembled for a layout at the ends of the ranges
C3_Witness ==
  /\ preview # <<>>
  /\ session_state.columns = 1
  /\ session_state.margin_mm = 25
  /\ session_state.gap_mm = 4
  /\ session_state.font_px = 16
  /\ preview[1].margin_mm = <<"2", "5", "m", "m">>

\* C4: an assembled document's page is 210mm by 297mm in portrait and
\* 297mm by 210mm in landscape, whatever the rest of the layout.
C4_PageDimensions ==
  preview # <<>> =>
    /\ session_state.orientation = "portrait" =>
         /\ preview[1].page_w_mm = <<"2", "1", "0", "m", "m">>
         /\ preview[1].page_h_mm = <<"2", "9", "7", "m", "m">>
    /\ session_state.orientation = "landscape" =>
         /\ preview[1].page_w_mm = <<"2", "9", "7", "m", "m">>
         /\ preview[1].page_h_mm = <<"2", "1", "0", "m", "m">>

\* a landscape document was assembled for a layout other than the default
C4_Witness ==
  /\ preview # <<>>
  /\ session_state.orientation = "landscape"
  /\ session_state.columns = 4
  /\ session_state.margin_mm = 5
  /\ ~session_state.show_guides

\* C5: at the end of the rerun Load (replace) caused, the document text is
\* the selected template's text; for Blank it is empty.
C5_LoadReplace ==
  [][clicked' = "Load (replace)" =>
       /\ session_state'.md = TEMPLATES[selected_template]
       /\ selected_template = "Blank" => session_state'.md = <<>>]_vars

\* Blank was loaded over a text (the initial text is not empty, and no
\* other action empties the text with this button as its cause)
C5_Witness ==
  /\ clicked = "Load (replace)"
  /\ selected_template = "Blank"
  /\ session_state.md = <<>>

\* C6: the rerun Load (append) causes leaves the document text equal to the
\* text before it followed by the selected template's text.
C6_LoadAppend ==
  [][clicked' = "Load (append)" =>
       /\ session_state'.md = session_state.md \o TEMPLATES[selected_template]
       /\ session_state.md = <<>> => session_state'.md = TEMPLATES[selected_template]]_vars

\* a template was appended to a text that was not empty
C6_Witness ==
  /\ clicked = "Load (append)"
  /\ session_state.md = <<"a", "#", "$", "\\">>

\* C7: in the escaped text every backtick and every dollar sign stands
\* after an odd number of backslashes.
C7_NoUnescaped ==
  preview # <<>> =>
    \A i \in 1..Len(preview[1].raw) :
      preview[1].raw[i] \in {"BACKTICK", "$"} =>
        BackslashesBefore(preview[1].raw, i) % 2 = 1

\* a text with a backslash right before a backtick, and a dollar sign, was
\* escaped
C7_Witness ==
  /\ preview # <<>>
  /\ session_state.md = <<"\\", "BACKTICK", "$">>

\* C8: the script element of an assembled document ends at the closing tag
\* the template writes, not inside the user's text.
C8_ScriptEndsAtOwnTag ==
  preview # <<>> =>
    FirstCloseTag(ScriptText(preview[1]))
      = Len(ScriptText(preview[1])) - Len(CloseTag) + 1

\* C9: at the end of every rerun the preview is the document assembled from
\* the session state as that rerun left it, and the link of a download
\* asked for in that rerun holds that document.
C9_DeliveredIsCurrent ==
  /\ preview = <<html_doc(session_state)>>
  /\ clicked = "Download as HTML" =>
       /\ Len(download) = 1
       /\ Downloaded(download[1]) = CodePoints(HtmlText(html_doc(session_state)))
  /\ clicked # "Download as HTML" => download = <<>>

\* a download was asked for after a template was loaded and the layout changed
C9_Witness ==
  /\ clicked = "Download as HTML"
  /\ session_state.md = TEMPLATES["Lecture Notes"]
  /\ session_state.columns = 4
  /\ session_state.orientation = "landscape"
  /\ Len(download) = 1

\* C10: the value of the template literal holding the escaped text is the
\* document text.
C10_CookedIsText ==
  preview # <<>> => Cook(preview[1].raw) = session_state.md

====
